---- MODULE Spec2Model ----
(***************************************************************************)
(* Model of tikva/core/config.py: the Configuration schema, the key        *)
(* normalizer rename_keys_for_config, the loader Configuration.from_yaml,  *)
(* the saver Configuration.save_user_settings and the process-wide         *)
(* singleton `config` created when the module is imported.                 *)
(*                                                                         *)
(* Python values are records of one shape (so that any two of them can be  *)
(* compared): t is the Python type, n the number of an int/bool, s the     *)
(* text of a str, l the elements of a list of ints.                        *)
(***************************************************************************)
EXTENDS Integers, Sequences, FiniteSets, TLC

VARIABLES config, other, fs, pc, call, pre, ret, threads

vars == <<config, other, fs, pc, call, pre, ret, threads>>

-----------------------------------------------------------------------------
(* Python values *)

NoneV == [t |-> "none", n |-> 0, s |-> "", l |-> <<>>]

BoolV(b) == [t |-> "bool", n |-> IF b THEN 1 ELSE 0, s |-> "", l |-> <<>>]

IntV(i) == [t |-> "int", n |-> i, s |-> "", l |-> <<>>]

StrV(str) == [t |-> "str", n |-> 0, s |-> str, l |-> <<>>]

ListV(xs) == [t |-> "list", n |-> 0, s |-> "", l |-> xs]

TupleV(xs) == [t |-> "tuple", n |-> 0, s |-> "", l |-> xs]

\* The value of an attribute that was never assigned (no instance exists yet).
Unset == [t |-> "unset", n |-> 0, s |-> "", l |-> <<>>]

-----------------------------------------------------------------------------
(* str methods used by the normalizer: str.upper, str.startswith, and the  *)
(* ordering of str that yaml.dump sorts keys by.                           *)

\* The characters of the keys, in code-point order.
CodePoints == "-0123456789ABCDEFGHIJKLMNOPQRSTUVWXYZ_abcdefghijklmnopqrstuvwxyz"

CharAt(str, i) == SubSeq(str, i, i)

Tail_(str) == SubSeq(str, 2, Len(str))

IndexIn(alphabet, c) ==
    IF \E i \in 1..Len(alphabet) : CharAt(alphabet, i) = c
    THEN CHOOSE i \in 1..Len(alphabet) : CharAt(alphabet, i) = c
    ELSE 0

\* The upper-case letter of each lower-case letter.
UpperOf ==
    [ a |-> "A", b |-> "B", c |-> "C", d |-> "D", e |-> "E", f |-> "F", g |-> "G",
      h |-> "H", i |-> "I", j |-> "J", k |-> "K", l |-> "L", m |-> "M", n |-> "N",
      o |-> "O", p |-> "P", q |-> "Q", r |-> "R", s |-> "S", t |-> "T", u |-> "U",
      v |-> "V", w |-> "W", x |-> "X", y |-> "Y", z |-> "Z" ]

\* str.upper on one character: any other character is kept.
UpperChar(c) == IF c \in DOMAIN UpperOf THEN UpperOf[c] ELSE c

RECURSIVE StrUpper(_)
StrUpper(str) ==
    IF Len(str) = 0 THEN ""
    ELSE UpperChar(CharAt(str, 1)) \o StrUpper(Tail_(str))

\* The lower-case letter of each upper-case letter.
LowerOf ==
    [ A |-> "a", B |-> "b", C |-> "c", D |-> "d", E |-> "e", F |-> "f", G |-> "g",
      H |-> "h", I |-> "i", J |-> "j", K |-> "k", L |-> "l", M |-> "m", N |-> "n",
      O |-> "o", P |-> "p", Q |-> "q", R |-> "r", S |-> "s", T |-> "t", U |-> "u",
      V |-> "v", W |-> "w", X |-> "x", Y |-> "y", Z |-> "z" ]

\* str.lower on one character: any other character is kept.
LowerChar(c) == IF c \in DOMAIN LowerOf THEN LowerOf[c] ELSE c

RECURSIVE StrLower(_)
StrLower(str) ==
    IF Len(str) = 0 THEN ""
    ELSE LowerChar(CharAt(str, 1)) \o StrLower(Tail_(str))

StartsWith(str, prefix) ==
    /\ Len(str) >= Len(prefix)
    /\ SubSeq(str, 1, Len(prefix)) = prefix

RECURSIVE StrLess(_, _)
StrLess(a, b) ==
    IF Len(b) = 0 THEN FALSE
    ELSE IF Len(a) = 0 THEN TRUE
    ELSE IF CharAt(a, 1) = CharAt(b, 1) THEN StrLess(Tail_(a), Tail_(b))
    ELSE IndexIn(CodePoints, CharAt(a, 1)) < IndexIn(CodePoints, CharAt(b, 1))

-----------------------------------------------------------------------------
(* dict: a sequence of items [k, v] in insertion order, keys distinct *)

Item(k, v) == [k |-> k, v |-> v]

HasKey(d, k) == \E i \in 1..Len(d) : d[i].k = k

Get(d, k) == d[CHOOSE i \in 1..Len(d) : d[i].k = k].v

\* d[k] = v: a key already present keeps its position and takes the new value.
DictSet(d, k, v) ==
    IF HasKey(d, k)
    THEN [i \in 1..Len(d) |-> IF d[i].k = k THEN Item(k, v) ELSE d[i]]
    ELSE Append(d, Item(k, v))

Keys(d) == {d[i].k : i \in 1..Len(d)}

\* Equality of two dicts as Python compares them (order does not matter).
DictEq(a, b) ==
    /\ Keys(a) = Keys(b)
    /\ \A k \in Keys(a) : Get(a, k) = Get(b, k)

-----------------------------------------------------------------------------
(* rename_keys_for_config *)

PREFIX == "DEFAULT_"

\* str.replace(old, ""): every occurrence of old is taken out.
RECURSIVE StrRemove(_, _)
StrRemove(str, old) ==
    IF Len(str) = 0 THEN ""
    ELSE IF Len(str) >= Len(old) /\ SubSeq(str, 1, Len(old)) = old
         THEN StrRemove(SubSeq(str, Len(old) + 1, Len(str)), old)
         ELSE CharAt(str, 1) \o StrRemove(Tail_(str), old)

\* remove_default_prefix, on one key: key.replace("DEFAULT_", "").lower().
RemoveDefaultPrefix(key) == StrLower(StrRemove(key, PREFIX))

\* RenameKey without the upper-casing.
RenameKey_NoUpper(key) ==
    IF ~StartsWith(key.s, PREFIX) THEN StrV(PREFIX \o key.s) ELSE key

\* RenameKey, leaving alone every key that already names a field.
RenameKey_KeepFieldNames(key) ==
    IF key.s \in {"ENABLE_REALSENSE", "ENABLE_CAMERAS", "MAX_OPENCV_INDEX",
                  "MAIN_CAMERA_ID", "ENABLE_CAN", "MAX_CAN_INTERFACES"}
       \/ StartsWith(key.s, PREFIX)
    THEN key
    ELSE StrV(PREFIX \o StrUpper(key.s))

\* The new name of one key.
RenameKey(key) ==
    IF ~StartsWith(key.s, PREFIX) THEN StrV(PREFIX \o StrUpper(key.s)) ELSE key

\* The dict comprehension, item by item; a key that is not a str has no
\* startswith and the comprehension raises AttributeError.
RECURSIVE RenameFrom(_, _, _)
RenameFrom(d, i, acc) ==
    IF i > Len(d) THEN [raised |-> "none", value |-> acc]
    ELSE IF d[i].k.t # "str" THEN [raised |-> "AttributeError", value |-> <<>>]
    ELSE RenameFrom(d, i + 1, DictSet(acc, RenameKey(d[i].k), d[i].v))

rename_keys_for_config(config_dict) == RenameFrom(config_dict, 1, <<>>)

-----------------------------------------------------------------------------
(* class Configuration(BaseModel): fields, types, defaults *)

\* Configuration.model_fields, in declaration order.
FieldNames ==
    << "ENABLE_REALSENSE", "ENABLE_CAMERAS", "MAX_OPENCV_INDEX", "MAIN_CAMERA_ID",
       "ENABLE_CAN", "MAX_CAN_INTERFACES",
       "DEFAULT_DATASET_NAME", "DEFAULT_FREQ", "DEFAULT_EPISODE_FORMAT",
       "DEFAULT_VIDEO_CODEC", "DEFAULT_VIDEO_SIZE", "DEFAULT_TASK_INSTRUCTION",
       "DEFAULT_CAMERAS_TO_DISABLE", "DEFAULT_CAMERAS_TO_RECORD" >>

Fields == {FieldNames[i] : i \in 1..Len(FieldNames)}

\* The fields declared under "# Recording defaults".
RecordingFields == {f \in Fields : StartsWith(f, PREFIX)}

\* The fields declared under "# Camera settings" and "# Robot settings".
OtherFields == Fields \ RecordingFields

EpisodeFormats == {"lerobot_v2.1", "lerobot_v2", "json"}

\* tikva.types.VideoCodecs: the supported codec identifiers.
VideoCodecs == {"avc1"}

\* The annotation of each field.
FieldType ==
    [ ENABLE_REALSENSE |-> "bool",
      ENABLE_CAMERAS |-> "bool",
      MAX_OPENCV_INDEX |-> "int",
      MAIN_CAMERA_ID |-> "Optional[int]",
      ENABLE_CAN |-> "bool",
      MAX_CAN_INTERFACES |-> "int",
      DEFAULT_DATASET_NAME |-> "str",
      DEFAULT_FREQ |-> "int",
      DEFAULT_EPISODE_FORMAT |-> "Literal",
      DEFAULT_VIDEO_CODEC |-> "VideoCodecs",
      DEFAULT_VIDEO_SIZE |-> "List[int]",
      DEFAULT_TASK_INSTRUCTION |-> "str",
      DEFAULT_CAMERAS_TO_DISABLE |-> "Optional[List[int]]",
      DEFAULT_CAMERAS_TO_RECORD |-> "Optional[List[int]]" ]

\* The default of each field: Configuration().
Defaults ==
    [ ENABLE_REALSENSE |-> BoolV(TRUE),
      ENABLE_CAMERAS |-> BoolV(TRUE),
      MAX_OPENCV_INDEX |-> IntV(10),
      MAIN_CAMERA_ID |-> NoneV,
      ENABLE_CAN |-> BoolV(FALSE),
      MAX_CAN_INTERFACES |-> IntV(4),
      DEFAULT_DATASET_NAME |-> StrV("example_dataset"),
      DEFAULT_FREQ |-> IntV(30),
      DEFAULT_EPISODE_FORMAT |-> StrV("lerobot_v2.1"),
      DEFAULT_VIDEO_CODEC |-> StrV("avc1"),
      DEFAULT_VIDEO_SIZE |-> ListV(<<320, 240>>),
      DEFAULT_TASK_INSTRUCTION |-> StrV("None"),
      DEFAULT_CAMERAS_TO_DISABLE |-> NoneV,
      DEFAULT_CAMERAS_TO_RECORD |-> NoneV ]

\* No instance: every attribute unassigned.
NoInstance == [f \in Fields |-> Unset]

-----------------------------------------------------------------------------
(* Validation of one value against a field's annotation (pydantic, lax     *)
(* mode): the value the field takes, or Invalid.                           *)

Invalid == [t |-> "invalid", n |-> 0, s |-> "", l |-> <<>>]

Digits == "0123456789"

RECURSIVE IsDigits(_)
IsDigits(str) ==
    IF Len(str) = 0 THEN TRUE
    ELSE IndexIn(Digits, CharAt(str, 1)) > 0 /\ IsDigits(Tail_(str))

RECURSIVE DigitsValue(_, _)
DigitsValue(str, acc) ==
    IF Len(str) = 0 THEN acc
    ELSE DigitsValue(Tail_(str), 10 * acc + IndexIn(Digits, CharAt(str, 1)) - 1)

\* A str is taken for an int when it is a decimal numeral, signed or not.
StrToInt(str) ==
    IF Len(str) > 1 /\ CharAt(str, 1) = "-" /\ IsDigits(Tail_(str))
    THEN IntV(0 - DigitsValue(Tail_(str), 0))
    ELSE IF Len(str) > 0 /\ IsDigits(str) THEN IntV(DigitsValue(str, 0))
    ELSE Invalid

CoerceInt(v) ==
    CASE v.t = "int" -> v
      [] v.t = "bool" -> IntV(v.n)
      [] v.t = "str" -> StrToInt(v.s)
      [] OTHER -> Invalid

CoerceBool(v) ==
    CASE v.t = "bool" -> v
      [] v.t = "int" /\ v.n \in {0, 1} -> BoolV(v.n = 1)
      [] OTHER -> Invalid

CoerceStr(v) == IF v.t = "str" THEN v ELSE Invalid

CoerceLiteral(allowed, v) == IF v.t = "str" /\ v.s \in allowed THEN v ELSE Invalid

\* List[int] takes a list as it is and a tuple as the list of its elements.
CoerceListInt(v) ==
    CASE v.t = "list" -> v
      [] v.t = "tuple" -> ListV(v.l)
      [] OTHER -> Invalid

Coerce(type, v) ==
    CASE type = "bool" -> CoerceBool(v)
      [] type = "int" -> CoerceInt(v)
      [] type = "Optional[int]" -> IF v.t = "none" THEN v ELSE CoerceInt(v)
      [] type = "str" -> CoerceStr(v)
      [] type = "Literal" -> CoerceLiteral(EpisodeFormats, v)
      [] type = "VideoCodecs" -> CoerceLiteral(VideoCodecs, v)
      [] type = "List[int]" -> CoerceListInt(v)
      [] type = "Optional[List[int]]" -> IF v.t = "none" THEN v ELSE CoerceListInt(v)

\* The value field f takes from the mapping: the validated value of its key
\* when the key is present, its default otherwise.  class Config: extra =
\* "ignore" -- a key that names no field is never looked at.
FieldValue(f, d) ==
    IF HasKey(d, StrV(f)) THEN Coerce(FieldType[f], Get(d, StrV(f))) ELSE Defaults[f]

\* model_validate with extra = "forbid": a key that names no field is an error.
model_validate_Forbid(d) ==
    IF \/ \E f \in Fields : FieldValue(f, d) = Invalid
       \/ \E i \in 1..Len(d) : d[i].k.s \notin Fields
    THEN [raised |-> "ValidationError", value |-> NoInstance]
    ELSE [raised |-> "none", value |-> [f \in Fields |-> FieldValue(f, d)]]

\* Configuration.model_validate(d) and Configuration(**d): the instance, or
\* ValidationError when some present field fails its rule.
model_validate(d) ==
    IF \E f \in Fields : FieldValue(f, d) = Invalid
    THEN [raised |-> "ValidationError", value |-> NoInstance]
    ELSE [raised |-> "none", value |-> [f \in Fields |-> FieldValue(f, d)]]

-----------------------------------------------------------------------------
(* Files and YAML.  A file is absent, or holds a document: empty text,     *)
(* text that is not YAML, a scalar, a sequence, or a mapping whose items   *)
(* are kept in the order of the text.                                      *)

YAML_CONFIG_PATH == "~/.tikva/config.yaml"

\* A config_path given to from_yaml explicitly.
OtherPath == "/tmp/other.yaml"

Absent == [exists |-> FALSE, kind |-> "", items |-> <<>>]

Doc(kind, items) == [exists |-> TRUE, kind |-> kind, items |-> items]

\* file.write(""): the file from_yaml creates.
EmptyFile == Doc("empty", <<>>)

\* sorted(): insertion of one item into a list of items sorted by key.
RECURSIVE InsertSorted(_, _)
InsertSorted(sorted, item) ==
    IF Len(sorted) = 0 THEN <<item>>
    ELSE IF StrLess(item.k.s, sorted[1].k.s) THEN <<item>> \o sorted
    ELSE <<sorted[1]>> \o InsertSorted(Tail(sorted), item)

RECURSIVE SortItems(_)
SortItems(d) ==
    IF Len(d) = 0 THEN <<>>
    ELSE InsertSorted(SortItems(SubSeq(d, 1, Len(d) - 1)), d[Len(d)])

\* yaml.dump(d, file) of a dict with str keys: a block mapping, keys sorted
\* (sort_keys defaults to True). The default Dumper writes a tuple under
\* the tag !!python/tuple: the item keeps the tuple as its value.
yaml_dump(d) == Doc("map", SortItems(d))

\* yaml.safe_load(file): the object (None for empty text), or YAMLError for
\* text that is not YAML and for a tag the SafeLoader does not construct
\* (ConstructorError on !!python/tuple).
yaml_safe_load(doc) ==
    CASE doc.kind = "invalid" ->
           [raised |-> "YAMLError", isDict |-> FALSE, items |-> <<>>]
      [] doc.kind = "map" /\ \E i \in 1..Len(doc.items) : doc.items[i].v.t = "tuple" ->
           [raised |-> "YAMLError", isDict |-> FALSE, items |-> <<>>]
      [] doc.kind = "map" ->
           [raised |-> "none", isDict |-> TRUE, items |-> doc.items]
      [] OTHER ->
           [raised |-> "none", isDict |-> FALSE, items |-> <<>>]

-----------------------------------------------------------------------------
(* Configuration.from_yaml(config_path): what it returns or raises, and    *)
(* the files it leaves.                                                    *)

\* LoadExisting with `if config is None:` only: a scalar or a list reaches
\* rename_keys_for_config, which has no items() to iterate.
LoadExisting_NoTypeCheck(doc) ==
    LET loaded == yaml_safe_load(doc)
        parsed == IF loaded.raised # "none" \/ ~loaded.isDict THEN <<>> ELSE loaded.items
        renamed == rename_keys_for_config(parsed)
    IN IF doc.kind \in {"scalar", "list"}
       THEN [raised |-> "AttributeError", value |-> NoInstance, logged |-> FALSE]
       ELSE IF renamed.raised # "none"
       THEN [raised |-> renamed.raised, value |-> NoInstance,
             logged |-> loaded.raised # "none"]
       ELSE LET validated == model_validate(renamed.value)
            IN [raised |-> validated.raised,
                value |-> validated.value,
                logged |-> loaded.raised # "none"]

\* Lines 84-97: the file exists.
LoadExisting(doc) ==
    LET loaded == yaml_safe_load(doc)
        parsed == IF loaded.raised # "none" \/ ~loaded.isDict THEN <<>> ELSE loaded.items
        renamed == rename_keys_for_config(parsed)
    IN IF renamed.raised # "none"
       THEN [raised |-> renamed.raised, value |-> NoInstance,
             logged |-> loaded.raised # "none"]
       ELSE LET validated == model_validate(renamed.value)
            IN [raised |-> validated.raised,
                value |-> validated.value,
                logged |-> loaded.raised # "none"]

from_yaml(files, path) ==
    IF ~files[path].exists
    THEN [raised |-> "none", value |-> Defaults, logged |-> FALSE]
    ELSE LoadExisting(files[path])

\* FilesAfterLoad without the creation of the missing file.
FilesAfterLoad_NoCreate(files, path) == files

\* FilesAfterLoad that also resets a file that does not parse.
FilesAfterLoad_Rewrite(files, path) ==
    IF ~files[path].exists \/ files[path].kind = "invalid"
    THEN [files EXCEPT ![path] = EmptyFile]
    ELSE files

\* Lines 79-81: a missing file is created empty; an existing one is only read.
FilesAfterLoad(files, path) ==
    IF ~files[path].exists THEN [files EXCEPT ![path] = EmptyFile] ELSE files

-----------------------------------------------------------------------------
(* Configuration.save_user_settings(user_settings) *)

\* Lines 106-111: the try block; the except clause catches every Exception.
Checked(user_settings) ==
    LET renamed == rename_keys_for_config(user_settings)
    IN IF renamed.raised # "none"
       THEN [raised |-> renamed.raised, settings |-> <<>>, new_config |-> NoInstance]
       ELSE LET validated == model_validate(renamed.value)
            IN [raised |-> validated.raised,
                settings |-> renamed.value,
                new_config |-> validated.value]

\* What open(YAML_CONFIG_PATH, "w") and the dump can do: succeed, fail to
\* open (file untouched), or fail after the open has truncated the file.
\* A call that returns on line 111 never reaches them (io = "").
IoOutcomes == {"ok", "open_error", "write_error"}

\* Lines 114-115: the name user_settings was rebound to the renamed dict on
\* line 107, and that dict is what is dumped.
Written(checked) == yaml_dump(checked.settings)

\* CopyFields as a merge: a field left at its default keeps the old value.
CopyFields_Merge(self, new_config) ==
    [f \in Fields |-> IF new_config[f] = Defaults[f] THEN self[f] ELSE new_config[f]]

\* Lines 118-119: every field of the instance takes new_config's value.
CopyFields(self, new_config) == [f \in Fields |-> new_config[f]]

\* FilesAfterSave with the dump done before the validation is looked at.
FilesAfterSave_WriteFirst(files, checked, io) ==
    IF checked.raised = "AttributeError" THEN files
    ELSE CASE io \in {"ok", ""} -> [files EXCEPT ![YAML_CONFIG_PATH] = Written(checked)]
           [] io = "write_error" -> [files EXCEPT ![YAML_CONFIG_PATH] = EmptyFile]
           [] io = "open_error" -> files

\* FilesAfterSave writing where the other instance was loaded from.
FilesAfterSave_OtherPath(files, checked, io) ==
    IF checked.raised # "none" THEN files
    ELSE CASE io = "ok" -> [files EXCEPT ![OtherPath] = Written(checked)]
           [] io = "write_error" -> [files EXCEPT ![OtherPath] = EmptyFile]
           [] io = "open_error" -> files

\* The files when the call ends: untouched when the try block raised
\* (line 111 returns before line 114).
FilesAfterSave(files, checked, io) ==
    IF checked.raised # "none" THEN files
    ELSE CASE io = "ok" -> [files EXCEPT ![YAML_CONFIG_PATH] = Written(checked)]
           [] io = "write_error" -> [files EXCEPT ![YAML_CONFIG_PATH] = EmptyFile]
           [] io = "open_error" -> files

\* The instance when the call ends: the copy of lines 118-119 is reached
\* only past the validation and the with block.
ConfigAfterSave(self, checked, io) ==
    IF checked.raised = "none" /\ io = "ok"
    THEN CopyFields(self, checked.new_config)
    ELSE self

\* How the call ends: the try block's exception is logged and swallowed;
\* the with block is outside any try, so its OSError reaches the caller.
SaveResult(checked, io) ==
    IF checked.raised # "none"
    THEN [raised |-> "none", value |-> NoInstance, logged |-> TRUE]
    ELSE [raised |-> IF io = "ok" THEN "none" ELSE "OSError",
          value |-> NoInstance, logged |-> FALSE]

-----------------------------------------------------------------------------
(* The inputs: the items a caller or a hand-edited file may hold *)

\* The longest mapping passed to save_user_settings.
MaxItems == 2

Paths == {YAML_CONFIG_PATH, OtherPath}

SettingItems ==
    { Item(StrV("freq"), IntV(60)),
      Item(StrV("freq"), IntV(0)),
      Item(StrV("freq"), StrV("60")),
      Item(StrV("freq"), StrV("abc")),
      Item(StrV("dataset_name"), StrV("foo")),
      Item(StrV("task_instruction"), StrV("custom")),
      Item(StrV("episode_format"), StrV("xml")),
      Item(StrV("video_size"), ListV(<<1, 2, 3>>)),
      Item(StrV("video_size"), TupleV(<<640, 480>>)),
      Item(StrV("DEFAULT_FREQ"), IntV(15)),
      Item(StrV("DEFAULT_freq"), IntV(45)),
      Item(StrV("ENABLE_CAN"), BoolV(TRUE)),
      Item(IntV(1), StrV("x")) }

\* The dicts of n items with distinct keys, in every insertion order.
DictsOf(n) ==
    {d \in [1..n -> SettingItems] : \A i, j \in 1..n : d[i].k = d[j].k => i = j}

Mappings == UNION {DictsOf(n) : n \in 0..MaxItems}

\* What the configuration file may hold when the process starts.
InitialDocs ==
    {Absent, EmptyFile, Doc("invalid", <<>>), Doc("scalar", <<>>), Doc("list", <<>>)}
        \cup {Doc("map", <<item>>) : item \in SettingItems}
        \cup {Doc("map", <<Item(StrV("freq"), IntV(60)),
                            Item(StrV("dataset_name"), StrV("foo"))>>)}

-----------------------------------------------------------------------------
(* State *)

NoCall == [op |-> "", path |-> "", arg |-> <<>>, io |-> ""]

NoPre == [config |-> NoInstance, fs |-> [p \in Paths |-> Absent]]

NoRet == [raised |-> "", value |-> NoInstance, logged |-> FALSE]

\* The threads that call config.save_user_settings.
Threads == {1, 2}

\* A thread outside save_user_settings.  Inside, pc is the line it is
\* about to run, arg the mapping it was given, settings and new_config the
\* locals of lines 107-108, i the index of the field the loop of line 118
\* is at; start is the singleton and peer the other thread's pc when the
\* call began, rejected tells that line 111 returned.
IdleThread ==
    [pc |-> "idle", arg |-> <<>>, settings |-> <<>>, new_config |-> NoInstance,
     i |-> 0, start |-> NoInstance, rejected |-> FALSE, peer |-> ""]

NoThreads == [t \in Threads |-> IdleThread]

\* The file at the other path when the process starts.
OtherDoc == Doc("map", <<Item(StrV("freq"), IntV(60))>>)

Init ==
    /\ config = NoInstance
    /\ other = NoInstance
    /\ threads = NoThreads
    /\ fs \in [Paths -> InitialDocs]
    /\ fs[OtherPath] = OtherDoc
    /\ pc = "boot"
    /\ call = NoCall
    /\ pre = NoPre
    /\ ret = NoRet

\* Line 122, run once when tikva.core.config is imported:
\* config = Configuration.from_yaml().  An exception ends the import.
Import ==
    /\ pc = "boot"
    /\ LET r == from_yaml(fs, YAML_CONFIG_PATH)
       IN /\ fs' = FilesAfterLoad(fs, YAML_CONFIG_PATH)
          /\ config' = IF r.raised = "none" THEN r.value ELSE config
          /\ pc' = IF r.raised = "none" THEN "returned" ELSE "import_failed"
          /\ ret' = r
    /\ call' = [NoCall EXCEPT !.op = "import", !.path = YAML_CONFIG_PATH]
    /\ pre' = [config |-> config, fs |-> fs]
    /\ UNCHANGED <<other, threads>>

\* A call of Configuration.from_yaml(path) by the application.
FromYaml(path) ==
    /\ pc = "idle"
    /\ fs' = FilesAfterLoad(fs, path)
    /\ ret' = from_yaml(fs, path)
    /\ pc' = "returned"
    /\ call' = [NoCall EXCEPT !.op = "from_yaml", !.path = path]
    /\ pre' = [config |-> config, fs |-> fs]
    /\ UNCHANGED <<config, other, threads>>

\* A call of config.save_user_settings(user_settings), start to end; io is
\* what the operating system does with the open and the write.
SaveUserSettings(user_settings) ==
    /\ pc = "idle"
    /\ pc' = "returned"
    /\ pre' = [config |-> config, fs |-> fs]
    /\ UNCHANGED <<other, threads>>
    /\ \E checked \in {Checked(user_settings)} :
          \E io \in IF checked.raised # "none" THEN {""} ELSE IoOutcomes :
             /\ call' = [NoCall EXCEPT !.op = "save", !.arg = user_settings, !.io = io]
             /\ fs' = FilesAfterSave(fs, checked, io)
             /\ config' = ConfigAfterSave(config, checked, io)
             /\ ret' = SaveResult(checked, io)

\* The caller goes on after the call.
Return ==
    /\ pc = "returned"
    /\ pc' = "idle"
    /\ call' = NoCall
    /\ pre' = NoPre
    /\ ret' = NoRet
    /\ UNCHANGED <<config, other, fs, threads>>

Next ==
    \/ Import
    \/ \E path \in Paths : FromYaml(path)
    \/ \E user_settings \in Mappings : SaveUserSettings(user_settings)
    \/ Return

Spec == Init /\ [][Next]_vars

-----------------------------------------------------------------------------
(* An application that keeps a second instance, obtained with              *)
(* Configuration.from_yaml(OtherPath), and saves through it.               *)

\* The default file is missing or empty when the process starts.
InitOther ==
    /\ config = NoInstance
    /\ other = NoInstance
    /\ threads = NoThreads
    /\ fs \in [Paths -> {Absent, EmptyFile, OtherDoc}]
    /\ fs[YAML_CONFIG_PATH] # OtherDoc
    /\ fs[OtherPath] = OtherDoc
    /\ pc = "boot"
    /\ call = NoCall
    /\ pre = NoPre
    /\ ret = NoRet

\* other = Configuration.from_yaml(OtherPath), once.
LoadOther ==
    /\ pc = "idle"
    /\ other = NoInstance
    /\ LET r == from_yaml(fs, OtherPath)
       IN /\ fs' = FilesAfterLoad(fs, OtherPath)
          /\ other' = IF r.raised = "none" THEN r.value ELSE other
          /\ ret' = r
    /\ pc' = "returned"
    /\ call' = [NoCall EXCEPT !.op = "load_other", !.path = OtherPath]
    /\ pre' = [config |-> other, fs |-> fs]
    /\ UNCHANGED <<config, threads>>

\* A call of other.save_user_settings(user_settings): lines 99-119 with the
\* second instance as self.  pre.config is self before the call.
SaveOther(user_settings) ==
    /\ pc = "idle"
    /\ other # NoInstance
    /\ pc' = "returned"
    /\ pre' = [config |-> other, fs |-> fs]
    /\ UNCHANGED <<config, threads>>
    /\ \E checked \in {Checked(user_settings)} :
          \E io \in IF checked.raised # "none" THEN {""} ELSE IoOutcomes :
             /\ call' = [NoCall EXCEPT !.op = "save_other", !.arg = user_settings, !.io = io]
             /\ fs' = FilesAfterSave(fs, checked, io)
             /\ other' = ConfigAfterSave(other, checked, io)
             /\ ret' = SaveResult(checked, io)

NextOther ==
    \/ Import
    \/ LoadOther
    \/ \E user_settings \in Mappings : SaveOther(user_settings)
    \/ Return

SpecOther == InitOther /\ [][NextOther]_vars

-----------------------------------------------------------------------------
(* save_user_settings line by line, for one thread and for two.  The       *)
(* interpreter can switch threads between any two lines and between two    *)
(* rounds of the loop of lines 118-119; nothing in the module takes a      *)
(* lock.                                                                   *)

RECURSIVE IntLen(_)
\* The number of characters of str(n).
IntLen(n) ==
    IF n < 0 THEN 1 + IntLen(0 - n)
    ELSE IF n < 10 THEN 1 ELSE 1 + IntLen(n \div 10)

RECURSIVE SeqLen(_)
\* The length of the block sequence of xs: one line "- n" per element.
SeqLen(xs) ==
    IF Len(xs) = 0 THEN 0 ELSE 3 + IntLen(xs[1]) + SeqLen(Tail(xs))

\* The length of the text yaml.dump writes for one item: "KEY: value" and
\* a newline; a str that reads as a number is quoted, a list goes on the
\* lines below the key, a tuple does the same after its tag.
ItemLen(item) ==
    Len(item.k.s) + 1 +
        CASE item.v.t = "int" -> 2 + IntLen(item.v.n)
          [] item.v.t = "str" ->
                2 + Len(item.v.s) + (IF StrToInt(item.v.s) # Invalid THEN 2 ELSE 0)
          [] item.v.t = "bool" -> IF item.v.n = 1 THEN 6 ELSE 7
          [] item.v.t = "none" -> 6
          [] item.v.t = "list" -> IF Len(item.v.l) = 0 THEN 4 ELSE 1 + SeqLen(item.v.l)
          [] item.v.t = "tuple" -> 16 + SeqLen(item.v.l)

RECURSIVE ItemsLen(_)
ItemsLen(items) ==
    IF Len(items) = 0 THEN 0 ELSE ItemLen(items[1]) + ItemsLen(Tail(items))

\* The length of the text of a dumped mapping ("{}" and a newline for the
\* empty one), 0 for the file just truncated.
TextLen(doc) ==
    IF doc.kind # "map" THEN 0
    ELSE IF Len(doc.items) = 0 THEN 3 ELSE ItemsLen(doc.items)

\* The file after this thread's text went in at offset 0 (each open has its
\* own offset, the text leaves the buffer when the with block closes the
\* file): the text itself, or, over a longer text that another thread wrote
\* after this thread's open, the text followed by the rest of the other.
Overlay(mine, current) ==
    IF TextLen(current) > TextLen(mine)
    THEN Doc("overlaid", mine.items)
    ELSE mine

\* AfterTry with the copy moved before the write.
AfterTry_CopyFirst(checked) == IF checked.raised # "none" THEN "done" ELSE "copy"

\* Lines 106-111: where the call goes after the try block.
AfterTry(checked) == IF checked.raised # "none" THEN "done" ELSE "open"

\* The other thread.
Peer(t) == CHOOSE u \in Threads : u # t

\* Lines 106-111.
SaveTry(t, user_settings) ==
    /\ threads[t].pc = "idle"
    /\ \E checked \in {Checked(user_settings)} :
          threads' = [threads EXCEPT ![t] =
              [pc |-> AfterTry(checked),
               arg |-> user_settings,
               settings |-> checked.settings,
               new_config |-> checked.new_config,
               i |-> 1,
               start |-> config,
               rejected |-> checked.raised # "none",
               peer |-> threads[Peer(t)].pc]]
    /\ UNCHANGED <<config, other, fs, pc, call, pre, ret>>

\* Line 114: open(YAML_CONFIG_PATH, "w") truncates the file, or fails.
SaveOpen(t) ==
    /\ threads[t].pc = "open"
    /\ \E io \in {"ok", "open_error"} :
          /\ fs' = IF io = "ok" THEN [fs EXCEPT ![YAML_CONFIG_PATH] = EmptyFile] ELSE fs
          /\ threads' = [threads EXCEPT ![t].pc = IF io = "ok" THEN "dump" ELSE "raised"]
    /\ UNCHANGED <<config, other, pc, call, pre, ret>>

\* Line 115 and the end of the with block: the dump reaches the file, or
\* the write fails.
SaveDump(t) ==
    /\ threads[t].pc = "dump"
    /\ \E io \in {"ok", "write_error"} :
          /\ fs' = IF io = "ok"
                   THEN [fs EXCEPT ![YAML_CONFIG_PATH] =
                            Overlay(yaml_dump(threads[t].settings), fs[YAML_CONFIG_PATH])]
                   ELSE fs
          /\ threads' = [threads EXCEPT ![t].pc = IF io = "ok" THEN "copy" ELSE "raised"]
    /\ UNCHANGED <<config, other, pc, call, pre, ret>>

\* CopyField that leaves a field alone when the new value is the default.
CopyField_KeepSet(self, new_config, f) ==
    IF new_config[f] = Defaults[f] THEN self ELSE [self EXCEPT ![f] = new_config[f]]

\* Line 119: setattr(self, field, getattr(new_config, field)).
CopyField(self, new_config, f) == [self EXCEPT ![f] = new_config[f]]

\* Lines 118-119, one round of the loop; the call returns after the last.
SaveCopy(t) ==
    /\ threads[t].pc = "copy"
    /\ config' = CopyField(config, threads[t].new_config, FieldNames[threads[t].i])
    /\ threads' = [threads EXCEPT
                      ![t].i = @ + 1,
                      ![t].pc = IF threads[t].i = Len(FieldNames) THEN "done" ELSE "copy"]
    /\ UNCHANGED <<other, fs, pc, call, pre, ret>>

\* The caller goes on, after the return or with the OSError.
SaveReturn(t) ==
    /\ threads[t].pc \in {"done", "raised"}
    /\ threads' = [threads EXCEPT ![t] = IdleThread]
    /\ UNCHANGED <<config, other, fs, pc, call, pre, ret>>

\* The mappings the threads save.
StepMappings ==
    { <<>>,
      <<Item(StrV("freq"), IntV(60)), Item(StrV("dataset_name"), StrV("foo"))>>,
      <<Item(StrV("DEFAULT_FREQ"), IntV(15)), Item(StrV("task_instruction"), StrV("custom"))>>,
      <<Item(StrV("episode_format"), StrV("xml"))>> }

\* The singleton was imported from an empty file.
InitSteps ==
    /\ config = Defaults
    /\ other = NoInstance
    /\ fs = [p \in Paths |-> IF p = YAML_CONFIG_PATH THEN EmptyFile ELSE OtherDoc]
    /\ pc = "idle"
    /\ call = NoCall
    /\ pre = NoPre
    /\ ret = NoRet
    /\ threads = NoThreads

\* One thread, call after call.
NextSteps ==
    \/ \E user_settings \in StepMappings : SaveTry(1, user_settings)
    \/ SaveOpen(1)
    \/ SaveDump(1)
    \/ SaveCopy(1)
    \/ SaveReturn(1)

SpecSteps == InitSteps /\ [][NextSteps]_vars

\* Two threads, one call each.
NextConcurrent ==
    \E t \in Threads :
        \/ \E user_settings \in StepMappings : SaveTry(t, user_settings)
        \/ SaveOpen(t)
        \/ SaveDump(t)
        \/ SaveCopy(t)

SpecConcurrent == InitSteps /\ [][NextConcurrent]_vars

-----------------------------------------------------------------------------
(* Properties.  In a state with pc = "returned" the call that has just     *)
(* ended is `call`, the state it started from is `pre`, and how it ended   *)
(* is `ret`.                                                               *)

SaveDone == pc = "returned" /\ call.op = "save"

\* A save that passed the validation and whose file write succeeded.
SaveCompleted == SaveDone /\ call.io = "ok"

LoadDone == pc \in {"returned", "import_failed"} /\ call.op \in {"import", "from_yaml"}

\* The singleton exists.
Loaded == pc \in {"idle", "returned"}

\* C1: a save whose normalized mapping fails validation leaves every field
\* of the singleton and the configuration file as they were before the
\* call, and returns normally.
C1_RejectedSaveChangesNothing ==
    (SaveDone /\ Checked(call.arg).raised = "ValidationError")
        => /\ config = pre.config
           /\ fs = pre.fs
           /\ ret.raised = "none"

\* A save of an episode format outside the allowed set was rejected while
\* the singleton held non-default values and the file held a mapping.
C1_Witness ==
    /\ SaveDone
    /\ \E i \in 1..Len(call.arg) : call.arg[i] = Item(StrV("episode_format"), StrV("xml"))
    /\ Checked(call.arg).raised = "ValidationError"
    /\ ret.logged
    /\ pre.config # Defaults
    /\ config = pre.config
    /\ fs[YAML_CONFIG_PATH].kind = "map"
    /\ Len(fs[YAML_CONFIG_PATH].items) > 0

\* What the normalizer turns each key of the mapping into, by position.
NormalizedKeys(m) ==
    [i \in 1..Len(m) |-> IF m[i].k.t = "str" THEN RenameKey(m[i].k) ELSE m[i].k]

\* The positions whose normalized key is the canonical identifier of f.
NamedBy(f, keys) == {i \in DOMAIN keys : keys[i] = StrV(f)}

\* The value of the last of the positions `named` of the mapping.
LastValue(named, m) == m[CHOOSE i \in named : \A j \in named : j <= i].v

\* C2: save is a replace, not a merge: after a save that validated (and
\* was written), every field named in the mapping holds the mapping's
\* value for it (the last one, when two keys name it) and every other
\* field holds its schema default, whatever the singleton held before.
C2_SaveReplaces ==
    SaveCompleted =>
        \E keys \in {NormalizedKeys(call.arg)} :
            \A f \in Fields :
                IF NamedBy(f, keys) = {}
                THEN config[f] = Defaults[f]
                ELSE config[f] = Coerce(FieldType[f], LastValue(NamedBy(f, keys), call.arg))

\* Scenario C: the singleton had frequency 60 and task instruction
\* "custom"; save({dataset_name: foo}) set the name and reset the others.
C2_Witness ==
    /\ SaveCompleted
    /\ pre.config.DEFAULT_FREQ = IntV(60)
    /\ pre.config.DEFAULT_TASK_INSTRUCTION = StrV("custom")
    /\ call.arg = <<Item(StrV("dataset_name"), StrV("foo"))>>
    /\ config.DEFAULT_DATASET_NAME = StrV("foo")
    /\ config.DEFAULT_FREQ = IntV(30)
    /\ config.DEFAULT_TASK_INSTRUCTION = StrV("None")

\* C3: after a successful save the configuration file holds the mapping as
\* the caller passed it (keys not renamed), and nothing else.
C3_FileHoldsOriginalMapping ==
    SaveCompleted =>
        /\ fs[YAML_CONFIG_PATH].kind = "map"
        /\ DictEq(fs[YAML_CONFIG_PATH].items, call.arg)

\* C4: from_yaml never raises: whatever the file holds it returns a valid
\* Configuration.
C4_LoaderNeverRaises ==
    LoadDone => ret.raised = "none" /\ ret.value # NoInstance

\* C5: save_user_settings never raises, whatever the input and whatever the
\* open and the write of the file do.
C5_SaveNeverRaises ==
    SaveDone => ret.raised = "none"

\* C6: the singleton always satisfies the range rules: frequency > 0,
\* max-probe-index >= 0, max-can-interfaces >= 1, video-size two positive
\* integers.
C6_RangeRules ==
    Loaded =>
        /\ config.DEFAULT_FREQ.n > 0
        /\ config.MAX_OPENCV_INDEX.n >= 0
        /\ config.MAX_CAN_INTERFACES.n >= 1
        /\ Len(config.DEFAULT_VIDEO_SIZE.l) = 2
        /\ \A i \in 1..Len(config.DEFAULT_VIDEO_SIZE.l) : config.DEFAULT_VIDEO_SIZE.l[i] > 0

\* C7: from_yaml on a path where no file exists creates an empty file there
\* and returns all defaults; a load of the file it has created returns all
\* defaults again.
C7_MissingFileCreatedEmpty ==
    (LoadDone /\ ~pre.fs[call.path].exists)
        => /\ ret.raised = "none"
           /\ ret.value = Defaults
           /\ fs[call.path] = EmptyFile
           /\ from_yaml(fs, call.path).raised = "none"
           /\ from_yaml(fs, call.path).value = Defaults

\* The import found no configuration file, created it and the singleton is
\* all defaults.
C7_Witness ==
    /\ pc = "returned"
    /\ call.op = "import"
    /\ ~pre.fs[YAML_CONFIG_PATH].exists
    /\ fs[YAML_CONFIG_PATH] = EmptyFile
    /\ config = Defaults
    /\ config.DEFAULT_FREQ = IntV(30)
    /\ config.DEFAULT_EPISODE_FORMAT = StrV("lerobot_v2.1")

\* C8: from_yaml on a file that is not valid YAML returns all defaults and
\* leaves every file as it was.
C8_MalformedFileLeftAlone ==
    (LoadDone /\ pre.fs[call.path].kind = "invalid")
        => /\ ret.raised = "none"
           /\ ret.value = Defaults
           /\ fs = pre.fs

\* The import read a malformed file: the error was logged, the singleton is
\* all defaults and the file is still the malformed one.
C8_Witness ==
    /\ pc = "returned"
    /\ call.op = "import"
    /\ pre.fs[YAML_CONFIG_PATH].kind = "invalid"
    /\ ret.logged
    /\ config = Defaults
    /\ fs[YAML_CONFIG_PATH].kind = "invalid"

\* The renaming C9 describes: a key with the prefix is upper-cased, any
\* other key is upper-cased and prefixed.
ClaimedKey(key) ==
    IF ~StartsWith(key.s, PREFIX)
    THEN StrV(PREFIX \o StrUpper(key.s))
    ELSE StrV(StrUpper(key.s))

RECURSIVE ClaimedRenameFrom(_, _, _)
ClaimedRenameFrom(d, i, acc) ==
    IF i > Len(d) THEN acc
    ELSE ClaimedRenameFrom(d, i + 1, DictSet(acc, ClaimedKey(d[i].k), d[i].v))

\* C9: rename_keys_for_config prefixes and upper-cases a key without the
\* prefix, and upper-cases (without prefixing again) a key that has it;
\* values are unchanged.
C9_RenameUppercasesEveryKey ==
    (SaveDone /\ \A i \in 1..Len(call.arg) : call.arg[i].k.t = "str")
        => /\ rename_keys_for_config(call.arg).raised = "none"
           /\ rename_keys_for_config(call.arg).value = ClaimedRenameFrom(call.arg, 1, <<>>)

\* C10: the fields outside the recording-defaults group always hold their
\* schema defaults, in the singleton and in every instance from_yaml
\* returns.
C10_OtherFieldsKeepDefaults ==
    /\ Loaded => \A f \in OtherFields : config[f] = Defaults[f]
    /\ (LoadDone /\ ret.raised = "none") => \A f \in OtherFields : ret.value[f] = Defaults[f]

\* A save of the canonical key ENABLE_CAN with the value True went through
\* and the singleton's ENABLE_CAN is still False.
C10_Witness ==
    /\ SaveCompleted
    /\ \E i \in 1..Len(call.arg) : call.arg[i] = Item(StrV("ENABLE_CAN"), BoolV(TRUE))
    /\ config.ENABLE_CAN = BoolV(FALSE)
    /\ fs[YAML_CONFIG_PATH].kind = "map"

\* The mapping without its item at position i.
Without(m, i) == SubSeq(m, 1, i - 1) \o SubSeq(m, i + 1, Len(m))

\* The positions of the mapping whose key is a str that the normalizer
\* turns into the identifier of no field.
UnknownAt(m) ==
    {i \in 1..Len(m) : m[i].k.t = "str" /\ RenameKey(m[i].k).s \notin Fields}

\* C11: a key that names no field never makes a save or a load fail: when
\* the mapping without it validates, the save of the mapping with it
\* passes validation and gives the singleton the state the save of the
\* mapping without it gives; a file with it loads as the file without it.
C11_UnknownKeysIgnored ==
    /\ SaveDone =>
          \A i \in UnknownAt(call.arg) :
              \E alone \in {Checked(Without(call.arg, i))} :
                  alone.raised = "none"
                      => /\ call.io \in IoOutcomes
                         /\ ~ret.logged
                         /\ call.io = "ok" => config = alone.new_config
    /\ (LoadDone /\ pre.fs[call.path].kind = "map") =>
          \A i \in UnknownAt(pre.fs[call.path].items) :
              \E alone \in {LoadExisting(Doc("map", Without(pre.fs[call.path].items, i)))} :
                  alone.raised = "none"
                      => /\ ret.raised = "none"
                         /\ ret.value = alone.value

\* save({freq: 60, ENABLE_CAN: True}) went through and the singleton is what
\* save({freq: 60}) gives: frequency 60, everything else default.
C11_Witness ==
    /\ SaveCompleted
    /\ call.arg = <<Item(StrV("freq"), IntV(60)), Item(StrV("ENABLE_CAN"), BoolV(TRUE))>>
    /\ config = [Defaults EXCEPT !.DEFAULT_FREQ = IntV(60)]
    /\ pre.config # config

\* The fields a file of bare keys sets: the positions whose key is the
\* lower-case, unprefixed name of field f.
BareAt(f, items) ==
    {i \in 1..Len(items) : items[i].k.t = "str" /\ items[i].k.s = RemoveDefaultPrefix(f)}

\* Every item of the file has the bare key of a recording-defaults field and
\* a value of that field's type.
BareValidFile(doc) ==
    /\ doc.kind = "map"
    /\ Len(doc.items) > 0
    /\ \A i \in 1..Len(doc.items) :
          \E f \in RecordingFields :
              /\ i \in BareAt(f, doc.items)
              /\ Coerce(FieldType[f], doc.items[i].v) = doc.items[i].v

\* C12: from_yaml on a file that maps bare lower-case recording-defaults
\* keys to valid values returns an instance in which each of these fields
\* has the file's value and every other field its schema default.
C12_BareKeysLoaded ==
    (LoadDone /\ BareValidFile(pre.fs[call.path])) =>
        /\ ret.raised = "none"
        /\ \A f \in Fields :
              \E at \in {BareAt(f, pre.fs[call.path].items)} :
                  IF at = {}
                  THEN ret.value[f] = Defaults[f]
                  ELSE \A i \in at : ret.value[f] = pre.fs[call.path].items[i].v

\* Scenario B and more: the import read freq: 60 and dataset_name: foo.
C12_Witness ==
    /\ pc = "returned"
    /\ call.op = "import"
    /\ pre.fs[YAML_CONFIG_PATH].kind = "map"
    /\ Len(pre.fs[YAML_CONFIG_PATH].items) = 2
    /\ config = [Defaults EXCEPT !.DEFAULT_FREQ = IntV(60),
                                 !.DEFAULT_DATASET_NAME = StrV("foo")]

\* C13: from_yaml on a file that parses to something that is not a mapping
\* (a scalar, a list, nothing) takes it for an empty mapping and returns
\* all defaults without raising.
C13_NonMappingLoadsDefaults ==
    (LoadDone /\ pre.fs[call.path].kind \in {"scalar", "list", "empty"}) =>
        /\ ret.raised = "none"
        /\ ret.value = Defaults
        /\ ~ret.logged

\* The import read a file holding a list; the singleton is all defaults.
C13_Witness ==
    /\ pc = "returned"
    /\ call.op = "import"
    /\ pre.fs[YAML_CONFIG_PATH].kind = "list"
    /\ config = Defaults
    /\ ~ret.logged

\* C16: in a run of the singleton loaded from the default path, after the
\* import and after every save that has returned (it wrote, or it was
\* rejected), from_yaml on the configuration file returns an instance equal
\* field by field to the singleton.
C16_FileMatchesSingleton ==
    (\/ pc = "returned" /\ call.op = "import"
     \/ SaveDone /\ ret.raised = "none")
        => \E reloaded \in {from_yaml(fs, YAML_CONFIG_PATH)} :
              /\ reloaded.raised = "none"
              /\ \A f \in Fields : reloaded.value[f] = config[f]

\* C17: a save through an instance that from_yaml built from another path
\* writes YAML_CONFIG_PATH: once that instance exists the file at the other
\* path is never modified, no save through it changes that file, and a save
\* whose write succeeds leaves the dump of its normalized mapping at the
\* default path.
C17_SaveTargetFixed ==
    /\ other # NoInstance => fs[OtherPath] = OtherDoc
    /\ (pc = "returned" /\ call.op = "save_other") =>
          /\ fs[OtherPath] = pre.fs[OtherPath]
          /\ call.io = "ok" =>
                \E renamed \in {rename_keys_for_config(call.arg)} :
                    fs[YAML_CONFIG_PATH] = yaml_dump(renamed.value)

\* The instance came from the other path ({freq: 60}); its save of
\* {dataset_name: foo} replaced the default file and left the other file.
C17_Witness ==
    /\ pc = "returned"
    /\ call.op = "save_other"
    /\ call.io = "ok"
    /\ pre.config = [Defaults EXCEPT !.DEFAULT_FREQ = IntV(60)]
    /\ other = [Defaults EXCEPT !.DEFAULT_DATASET_NAME = StrV("foo")]
    /\ fs[OtherPath] = OtherDoc
    /\ fs[YAML_CONFIG_PATH] = Doc("map", <<Item(StrV("DEFAULT_DATASET_NAME"), StrV("foo"))>>)
    /\ pre.fs[YAML_CONFIG_PATH] # fs[YAML_CONFIG_PATH]

\* C14: one save call validates, then writes the file, then copies: while
\* it is before the copy, or ended by a failed validation or a failed open
\* or write, the singleton holds every pre-call value; when it copies, the
\* validation has succeeded, the file holds the dump, and exactly the
\* fields the loop has passed have changed.
C14_ValidateWriteCopy ==
    \E th \in {threads[1]} :
        /\ (th.pc \in {"open", "dump", "raised"} \/ (th.pc = "done" /\ th.rejected))
              => config = th.start
        /\ th.pc = "copy" =>
              /\ ~th.rejected
              /\ th.new_config = model_validate(th.settings).value
              /\ fs[YAML_CONFIG_PATH] = yaml_dump(th.settings)
              /\ \A k \in 1..Len(FieldNames) :
                    config[FieldNames[k]] =
                        IF k < th.i THEN th.new_config[FieldNames[k]]
                        ELSE th.start[FieldNames[k]]

\* The second call's write failed after the open: the file is empty and the
\* singleton, which the first call had changed, is as it was before the call.
C14_Witness ==
    /\ threads[1].pc = "raised"
    /\ fs[YAML_CONFIG_PATH] = EmptyFile
    /\ config = threads[1].start
    /\ config # Defaults
    /\ threads[1].new_config \notin {config, NoInstance}

\* Both calls passed validation, wrote and copied to the end.
BothCompleted == \A t \in Threads : threads[t].pc = "done" /\ ~threads[t].rejected

\* The singleton is neither call's new instance, field by field a mix of both.
Torn ==
    /\ \A t \in Threads : config # threads[t].new_config
    /\ \A f \in Fields : \E t \in Threads : config[f] = threads[t].new_config[f]

\* The singleton is one call's new instance and the file is not that call's dump.
FileOfAnotherSave ==
    \E t \in Threads :
        /\ config = threads[t].new_config
        /\ fs[YAML_CONFIG_PATH] # yaml_dump(threads[t].settings)

\* Neither call began after the other had ended.
Overlapped == \A t \in Threads : threads[t].peer \notin {"done", "raised"}

\* C15: two save calls with no lock around validate-write-copy can end with
\* the file from one save and the singleton from the other, or with a
\* singleton that mixes the two new instances (the witness is such an end);
\* such an end is reached only by calls that ran at the same time: when one
\* call began after the other had ended, file and singleton are the later
\* call's.
C15_BadEndsNeedOverlap ==
    BothCompleted =>
        /\ (Torn \/ FileOfAnotherSave) => Overlapped
        /\ ~Overlapped =>
              \E t \in Threads :
                  /\ threads[t].peer = "done"
                  /\ config = threads[t].new_config
                  /\ fs[YAML_CONFIG_PATH] = yaml_dump(threads[t].settings)

\* Both calls are over: the first call's file was overwritten by the second
\* call's, and the singleton has the frequency of one new instance and the
\* dataset name of the other.
C15_Witness ==
    /\ BothCompleted
    /\ Torn
    /\ fs[YAML_CONFIG_PATH] = yaml_dump(threads[2].settings)
    /\ fs[YAML_CONFIG_PATH] # yaml_dump(threads[1].settings)
    /\ config.DEFAULT_FREQ = threads[2].new_config.DEFAULT_FREQ
    /\ config.DEFAULT_FREQ # threads[1].new_config.DEFAULT_FREQ
    /\ config.DEFAULT_DATASET_NAME = threads[1].new_config.DEFAULT_DATASET_NAME
    /\ config.DEFAULT_DATASET_NAME # threads[2].new_config.DEFAULT_DATASET_NAME

====
